---- MODULE Spec2Model ----
(***************************************************************************)
(* Model of gqcnn/ros_nodes/grasp_planner_node.py: the GraspPlanner        *)
(* request handlers (plan_grasp, plan_grasp_bb, plan_grasp_segmask), the   *)
(* shared pipeline _plan_grasp and execute_policy.                         *)
(*                                                                         *)
(* Every service request is handled on its own thread.  A request's        *)
(* position in its handler is pc[r]; the handler's locals are the          *)
(* per-request entries of args, rgbd_state, grasp and gqcnn_grasp.  The    *)
(* only object shared by the handlers is the GraspPlanner itself (self)    *)
(* and the pose topic (published).  policy_calls and policy_log record, at *)
(* the policy's interface, the calls each request made: the scene state it *)
(* passed and what the policy answered.                                    *)
(***************************************************************************)
EXTENDS Integers, FiniteSets, Sequences, TLC

(***************************************************************************)
(* Bounds of the model.                                                    *)
(***************************************************************************)
MaxCrop == 2
MinDim == 3
MaxDim == 6
MaxGraspVal == 2

VARIABLES self, req, pc, args, rgbd_state, policy_calls, policy_log, grasp,
          gqcnn_grasp, published, result

vars == <<self, req, pc, args, rgbd_state, policy_calls, policy_log, grasp,
          gqcnn_grasp, published, result>>

(***************************************************************************)
(* Python's None and a present value.                                      *)
(***************************************************************************)
None == <<>>
Some(v) == <<v>>
Val(o) == o[1]

Max(a, b) == IF a >= b THEN a ELSE b

Reqs == DOMAIN pc

(***************************************************************************)
(* Pixels <<y, x>> of an image of the given shape.                         *)
(***************************************************************************)
Pixels(h, w) == (0 .. (h - 1)) \X (0 .. (w - 1))

(***************************************************************************)
(* Requests.  A transport buffer either decodes to an array of some shape  *)
(* (ok) or makes cv_bridge raise CvBridgeError (~ok).                      *)
(***************************************************************************)
Frames == {"camera_a", "camera_b"}
Dims == MinDim .. MaxDim
Patterns == {"zeros", "checker"}

BadBuffer == [ok |-> FALSE, height |-> 0, width |-> 0]
RawImages == {BadBuffer} \cup
             {[ok |-> TRUE, height |-> h, width |-> w] : h \in Dims, w \in Dims}
RawMasks == {[ok |-> FALSE, height |-> 0, width |-> 0, pat |-> "zeros"]} \cup
            {[ok |-> TRUE, height |-> h, width |-> w, pat |-> p] :
                h \in Dims, w \in Dims, p \in Patterns}

\* the extents of a bounding box along one axis: before the image, over its
\* origin, inside it, past its end, and inverted
Extents == {<<0 - 2, 0 - 1>>, <<0 - 1, 2>>, <<1, 3>>,
            <<MaxDim + 1, MaxDim + 2>>, <<2, 1>>}
Boxes == {[minX |-> ex[1], maxX |-> ex[2], minY |-> ey[1], maxY |-> ey[2]] :
            ex \in Extents, ey \in Extents}

PlainRequests ==
    {[entry |-> "plan_grasp", color_image |-> c, depth_image |-> d,
      frame_id |-> f, bounding_box |-> None, segmask |-> None] :
        c \in RawImages, d \in RawImages, f \in Frames}
BBRequests ==
    {[entry |-> "plan_grasp_bb", color_image |-> c, depth_image |-> d,
      frame_id |-> f, bounding_box |-> Some(b), segmask |-> None] :
        c \in RawImages, d \in RawImages, f \in Frames, b \in Boxes}
SegmaskRequests ==
    {[entry |-> "plan_grasp_segmask", color_image |-> c, depth_image |-> d,
      frame_id |-> f, bounding_box |-> None, segmask |-> Some(m)] :
        c \in RawImages, d \in RawImages, f \in Frames, m \in RawMasks}
Requests == PlainRequests \cup BBRequests \cup SegmaskRequests

(***************************************************************************)
(* GraspPlanner.__init__: the minimum image dimensions.                    *)
(* math.ceil(np.sqrt(2) * (float(c) / 2)) is the least integer p with      *)
(* p >= c / sqrt(2), that is with 2 p^2 >= c^2.                            *)
(***************************************************************************)
ceil_sqrt2_half(c) ==
    CHOOSE p \in 0 .. c :
        /\ 2 * p * p >= c * c
        /\ \A q \in 0 .. (p - 1) : 2 * q * q < c * c

pad(cfg) == Max(ceil_sqrt2_half(cfg.crop_width), ceil_sqrt2_half(cfg.crop_height))

min_width(cfg) == 2 * pad(cfg) + cfg.crop_width

min_height(cfg) == 2 * pad(cfg) + cfg.crop_height

GraspPlannerInit(cfg) ==
    [cfg |-> cfg, pad |-> pad(cfg),
     min_width |-> min_width(cfg), min_height |-> min_height(cfg)]

Configs == {[crop_width |-> cw, crop_height |-> ch] :
                cw \in 1 .. MaxCrop, ch \in 1 .. MaxCrop}

(***************************************************************************)
(* The perception image types wrapped around a decoded array.  The pixel   *)
(* content of a color or depth image is not modelled: an image is its      *)
(* shape, its frame and whether it has been inpainted.  A BinaryImage      *)
(* carries the set of its nonzero (255) pixels.                            *)
(***************************************************************************)
CameraIntrinsics(rq) == [frame |-> rq.frame_id]

ColorImage(raw, frame) ==
    [type |-> "color", height |-> raw.height, width |-> raw.width,
     frame |-> frame, inpainted |-> FALSE]

DepthImage(raw, frame) ==
    [type |-> "depth", height |-> raw.height, width |-> raw.width,
     frame |-> frame, inpainted |-> FALSE]

PatternData(pat, h, w) ==
    IF pat = "zeros" THEN {}
    ELSE {p \in Pixels(h, w) : (p[1] + p[2]) % 2 = 0}

BinaryImage(raw, frame) ==
    [height |-> raw.height, width |-> raw.width, frame |-> frame,
     data |-> PatternData(raw.pat, raw.height, raw.width)]

inpaint(im) == [im EXCEPT !.inpainted = TRUE]

from_color_and_depth(color_im, depth_im) ==
    [height |-> color_im.height, width |-> color_im.width,
     frame |-> color_im.frame, color |-> color_im, depth |-> depth_im]

\* np.zeros for np.ones
zeros_segmask(depth_im, frame) ==
    [height |-> depth_im.height, width |-> depth_im.width, frame |-> frame,
     data |-> {}]

\* 255 * np.ones(depth_im.shape)
ones_segmask(depth_im, frame) ==
    [height |-> depth_im.height, width |-> depth_im.width, frame |-> frame,
     data |-> Pixels(depth_im.height, depth_im.width)]

RgbdImageState(rgbd_im, camera_intr, segmask) ==
    [rgbd_im |-> rgbd_im, camera_intr |-> camera_intr, segmask |-> segmask]

(***************************************************************************)
(* read_images.  A CvBridgeError is caught and logged, and execution goes  *)
(* on to the size check, where the image that was never bound is read:     *)
(* UnboundLocalError.  The other failures are rospy.ServiceException,      *)
(* told apart here by what their message reports.                          *)
(***************************************************************************)
Raised(kind) ==
    [err |-> Some(kind), color_im |-> None, depth_im |-> None, camera_intr |-> None]

\* the check with the widths forgotten
shape_differs_height_only(a, b) == a.height # b.height

shape_differs(a, b) == a.height # b.height \/ a.width # b.width

\* the check with "and" for "or"
too_small_in_both(slf, im) == im.height < slf.min_height /\ im.width < slf.min_width

too_small(slf, im) == im.height < slf.min_height \/ im.width < slf.min_width

read_images(slf, rq) ==
    LET camera_intr == CameraIntrinsics(rq)
        color_im == ColorImage(rq.color_image, camera_intr.frame)
        depth_im == DepthImage(rq.depth_image, camera_intr.frame)
    IN  IF ~rq.color_image.ok \/ ~rq.depth_image.ok
            THEN Raised("UnboundLocalError")
        ELSE IF shape_differs(color_im, depth_im)
            THEN Raised("DimensionMismatch")
        ELSE IF too_small(slf, color_im)
            THEN Raised("ImageTooSmall")
        ELSE [err |-> None, color_im |-> Some(color_im),
              depth_im |-> Some(depth_im), camera_intr |-> Some(camera_intr)]

(***************************************************************************)
(* The segmask checks of plan_grasp_segmask, after read_images returned.   *)
(***************************************************************************)
read_segmask(rq, color_im, camera_intr) ==
    LET raw_segmask == Val(rq.segmask)
        segmask == BinaryImage(raw_segmask, camera_intr.frame)
    IN  IF ~raw_segmask.ok
            THEN [err |-> Some("UnboundLocalError"), segmask |-> None]
        ELSE IF shape_differs(color_im, segmask)
            THEN [err |-> Some("DimensionMismatch"), segmask |-> None]
        ELSE [err |-> None, segmask |-> Some(segmask)]

(***************************************************************************)
(* The bounding-box block of _plan_grasp.  The box is contained to the     *)
(* image, and then the mask array is allocated from rgbd_image, a name     *)
(* that is bound nowhere: NameError, for every bounding box.               *)
(***************************************************************************)
contain_box(bounding_box, rgbd_im) ==
    [min_x |-> IF bounding_box.minX < 0 THEN 0 ELSE bounding_box.minX,
     min_y |-> IF bounding_box.minY < 0 THEN 0 ELSE bounding_box.minY,
     max_x |-> IF bounding_box.maxX > rgbd_im.width THEN rgbd_im.width
               ELSE bounding_box.maxX,
     max_y |-> IF bounding_box.maxY > rgbd_im.height THEN rgbd_im.height
               ELSE bounding_box.maxY]

mask_bounding_box(bounding_box, rgbd_im, segmask) ==
    IF bounding_box = None
        THEN [err |-> None, segmask |-> Some(segmask)]
    ELSE LET box == contain_box(Val(bounding_box), rgbd_im)
         IN  [err |-> Some("NameError"), segmask |-> None]

(***************************************************************************)
(* The grasping policy (gqcnn.grasping), called once with the scene state: *)
(* it returns a grasp, raises NoValidGraspsException, or fails otherwise.  *)
(* With no pixel in the region of interest there is nothing to sample.     *)
(***************************************************************************)
GraspKinds == {"Grasp2D", "SuctionPoint2D", "MultiSuctionPoint2D"}
Grasps ==
    {[kind |-> k, q_value |-> v, pose |-> v + 10, center |-> <<v + 20, v + 30>>,
      angle |-> v + 40, depth |-> v + 50, image |-> v + 60] :
        k \in GraspKinds, v \in 1 .. MaxGraspVal}

PolicyOutcomes(state) ==
    IF state.segmask.data = {}
        THEN {[exc |-> Some("NoValidGraspsException"), grasp |-> None]}
    ELSE {[exc |-> Some("NoValidGraspsException"), grasp |-> None],
          [exc |-> Some("PolicyFailure"), grasp |-> None]}
         \cup {[exc |-> None, grasp |-> Some(g)] : g \in Grasps}

(***************************************************************************)
(* execute_policy: the GQCNNGrasp message.                                 *)
(***************************************************************************)
\* the final else taken for a suction grasp instead of raising
grasp_type_else_suction(kind) ==
    IF kind = "Grasp2D" THEN Some("PARALLEL_JAW") ELSE Some("SUCTION")

grasp_type(kind) ==
    IF kind = "Grasp2D" THEN Some("PARALLEL_JAW")
    ELSE IF kind = "SuctionPoint2D" THEN Some("SUCTION")
    ELSE None

GQCNNGrasp(g, type) ==
    [q_value |-> g.q_value, pose |-> g.pose, grasp_type |-> type,
     center_px |-> g.center, angle |-> g.angle, depth |-> g.depth,
     thumbnail |-> g.image]

PoseStamped(g, pose_frame) == [pose |-> g.pose, frame_id |-> pose_frame]

\* grasp_pose_publisher.publish returns, or raises (a closed topic)
PublishOutcomes == {"published", "raised"}

(***************************************************************************)
(* The state after construction: the planner built from its configuration, *)
(* and the requests the service threads have been handed.                  *)
(***************************************************************************)
Pending == [status |-> "pending", error |-> "", response |-> None]

InitRequests(rs, qs) ==
    /\ \E cfg \in Configs : self = GraspPlannerInit(cfg)
    /\ req \in [rs -> qs]
    /\ pc = [r \in rs |-> "dispatched"]
    /\ args = [r \in rs |-> None]
    /\ rgbd_state = [r \in rs |-> None]
    /\ policy_calls = [r \in rs |-> 0]
    /\ policy_log = {}
    /\ grasp = [r \in rs |-> None]
    /\ gqcnn_grasp = [r \in rs |-> None]
    /\ published = {}
    /\ result = [r \in rs |-> Pending]

Init == InitRequests({1}, Requests)

\* two requests in flight, with distinct inputs
ConcImages == {BadBuffer, [ok |-> TRUE, height |-> MaxDim, width |-> MaxDim]}
ConcMasks == {[ok |-> TRUE, height |-> MaxDim, width |-> MaxDim, pat |-> "checker"],
              [ok |-> TRUE, height |-> MinDim, width |-> MinDim, pat |-> "zeros"]}
ConcBoxes == {[minX |-> 1, maxX |-> 3, minY |-> 1, maxY |-> 3]}
ConcRequests ==
    {q \in Requests :
        /\ q.color_image \in ConcImages
        /\ q.depth_image \in ConcImages
        /\ q.bounding_box # None => Val(q.bounding_box) \in ConcBoxes
        /\ q.segmask # None => Val(q.segmask) \in ConcMasks}

InitConc ==
    /\ InitRequests({1, 2}, ConcRequests)
    /\ req[1] # req[2]

(***************************************************************************)
(* How a handler ends: an exception leaves it, or it returns its message.  *)
(***************************************************************************)
Raise(r, kind) ==
    /\ pc' = [pc EXCEPT ![r] = "done"]
    /\ result' = [result EXCEPT ![r] =
                    [status |-> "error", error |-> kind, response |-> None]]

Return(r, msg) ==
    /\ pc' = [pc EXCEPT ![r] = "done"]
    /\ result' = [result EXCEPT ![r] =
                    [status |-> "ok", error |-> "", response |-> Some(msg)]]

Call_plan_grasp(r, color_im, depth_im, camera_intr, bounding_box, segmask) ==
    /\ pc' = [pc EXCEPT ![r] = "_plan_grasp"]
    /\ args' = [args EXCEPT ![r] =
                  Some([color_im |-> color_im, depth_im |-> depth_im,
                        camera_intr |-> camera_intr,
                        bounding_box |-> bounding_box, segmask |-> segmask])]
    /\ UNCHANGED result

(***************************************************************************)
(* The three service handlers, up to their call of _plan_grasp.            *)
(***************************************************************************)
plan_grasp(r) ==
    /\ pc[r] = "dispatched"
    /\ req[r].entry = "plan_grasp"
    /\ LET ri == read_images(self, req[r])
       IN  IF ri.err # None
               THEN Raise(r, Val(ri.err)) /\ UNCHANGED args
           ELSE Call_plan_grasp(r, Val(ri.color_im), Val(ri.depth_im),
                                Val(ri.camera_intr), None, None)
    /\ UNCHANGED <<self, req, rgbd_state, policy_calls, policy_log, grasp, gqcnn_grasp,
                   published>>

plan_grasp_bb(r) ==
    /\ pc[r] = "dispatched"
    /\ req[r].entry = "plan_grasp_bb"
    /\ LET ri == read_images(self, req[r])
       IN  IF ri.err # None
               THEN Raise(r, Val(ri.err)) /\ UNCHANGED args
           ELSE Call_plan_grasp(r, Val(ri.color_im), Val(ri.depth_im),
                                Val(ri.camera_intr), req[r].bounding_box, None)
    /\ UNCHANGED <<self, req, rgbd_state, policy_calls, policy_log, grasp, gqcnn_grasp,
                   published>>

plan_grasp_segmask(r) ==
    /\ pc[r] = "dispatched"
    /\ req[r].entry = "plan_grasp_segmask"
    /\ LET ri == read_images(self, req[r])
       IN  IF ri.err # None
               THEN Raise(r, Val(ri.err)) /\ UNCHANGED args
           ELSE LET rs == read_segmask(req[r], Val(ri.color_im), Val(ri.camera_intr))
                IN  IF rs.err # None
                        THEN Raise(r, Val(rs.err)) /\ UNCHANGED args
                    ELSE Call_plan_grasp(r, Val(ri.color_im), Val(ri.depth_im),
                                         Val(ri.camera_intr), None, rs.segmask)
    /\ UNCHANGED <<self, req, rgbd_state, policy_calls, policy_log, grasp, gqcnn_grasp,
                   published>>

(***************************************************************************)
(* _plan_grasp, up to the scene state handed to execute_policy.            *)
(***************************************************************************)
scene_state(a) ==
    LET color_im == inpaint(a.color_im)
        depth_im == inpaint(a.depth_im)
        segmask == IF a.segmask = None
                      THEN ones_segmask(depth_im, color_im.frame)
                   ELSE Val(a.segmask)
        rgbd_im == from_color_and_depth(color_im, depth_im)
        masked == mask_bounding_box(a.bounding_box, rgbd_im, segmask)
    IN  IF masked.err # None
            THEN [err |-> masked.err, state |-> None]
        ELSE [err |-> None,
              state |-> Some(RgbdImageState(rgbd_im, a.camera_intr, Val(masked.segmask)))]

\* the value kept in an attribute of the planner, which every handler shares
store_shared(locals, r, v) == [q \in DOMAIN locals |-> v]

store_local(locals, r, v) == [locals EXCEPT ![r] = v]

_plan_grasp(r) ==
    /\ pc[r] = "_plan_grasp"
    /\ LET s == scene_state(Val(args[r]))
       IN  IF s.err # None
               THEN Raise(r, Val(s.err)) /\ UNCHANGED rgbd_state
           ELSE /\ rgbd_state' = store_local(rgbd_state, r, s.state)
                /\ pc' = [pc EXCEPT ![r] = "execute_policy"]
                /\ UNCHANGED result
    /\ UNCHANGED <<self, req, args, policy_calls, policy_log, grasp, gqcnn_grasp,
                   published>>

(***************************************************************************)
(* execute_policy: the call of the policy.  NoValidGraspsException goes to *)
(* the except clause of _plan_grasp; any other exception leaves the        *)
(* handler as it is.                                                       *)
(***************************************************************************)
grasping_policy(r) ==
    /\ pc[r] = "execute_policy"
    /\ policy_calls' = [policy_calls EXCEPT ![r] = @ + 1]
    /\ \E o \in PolicyOutcomes(Val(rgbd_state[r])) :
          /\ policy_log' = policy_log \cup
                {[by |-> r, state |-> Val(rgbd_state[r]), out |-> o]}
          /\ IF o.exc = None
                 THEN /\ grasp' = store_local(grasp, r, o.grasp)
                      /\ pc' = [pc EXCEPT ![r] = "gqcnn_grasp"]
                      /\ UNCHANGED result
             ELSE IF Val(o.exc) = "NoValidGraspsException"
                 THEN /\ pc' = [pc EXCEPT ![r] = "except"]
                      /\ UNCHANGED <<grasp, result>>
             ELSE Raise(r, Val(o.exc)) /\ UNCHANGED grasp
    /\ UNCHANGED <<self, req, args, rgbd_state, gqcnn_grasp, published>>

\* the policy tried again after NoValidGraspsException
retry_after_no_valid_grasps == "execute_policy"

\* except NoValidGraspsException: log and raise the ServiceException
after_no_valid_grasps == "done"

except_NoValidGraspsException(r) ==
    /\ pc[r] = "except"
    /\ IF after_no_valid_grasps = "done"
           THEN Raise(r, "NoValidGrasp")
       ELSE pc' = [pc EXCEPT ![r] = after_no_valid_grasps] /\ UNCHANGED result
    /\ UNCHANGED <<self, req, args, rgbd_state, policy_calls, policy_log, grasp,
                   gqcnn_grasp, published>>

(***************************************************************************)
(* execute_policy: the GQCNNGrasp message is created and populated; a      *)
(* grasp that is neither a Grasp2D nor a SuctionPoint2D raises.            *)
(***************************************************************************)
populate_gqcnn_grasp(r) ==
    /\ pc[r] = "gqcnn_grasp"
    /\ LET g == Val(grasp[r])
           type == grasp_type(g.kind)
       IN  IF type = None
               THEN Raise(r, "UnsupportedGraspType") /\ UNCHANGED gqcnn_grasp
           ELSE /\ gqcnn_grasp' = store_local(gqcnn_grasp, r, Some(GQCNNGrasp(g, Val(type))))
                /\ pc' = [pc EXCEPT ![r] = "publish"]
                /\ UNCHANGED result
    /\ UNCHANGED <<self, req, args, rgbd_state, policy_calls, policy_log, grasp,
                   published>>

(***************************************************************************)
(* execute_policy: the pose alone is published in the camera's frame, and  *)
(* the message is returned.  An exception of publish is caught nowhere.    *)
(* The header's stamp (rospy.Time.now()) is left out.                      *)
(***************************************************************************)
publish(r) ==
    /\ pc[r] = "publish"
    /\ \E o \in PublishOutcomes :
          IF o = "published"
              THEN /\ published' = published \cup
                        {[by |-> r,
                          msg |-> PoseStamped(Val(grasp[r]),
                                              Val(rgbd_state[r]).camera_intr.frame)]}
                   /\ Return(r, Val(gqcnn_grasp[r]))
          ELSE Raise(r, "PublishError") /\ UNCHANGED published
    /\ UNCHANGED <<self, req, args, rgbd_state, policy_calls, policy_log, grasp,
                   gqcnn_grasp>>

Next ==
    \/ \E r \in Reqs : plan_grasp(r)
    \/ \E r \in Reqs : plan_grasp_bb(r)
    \/ \E r \in Reqs : plan_grasp_segmask(r)
    \/ \E r \in Reqs : _plan_grasp(r)
    \/ \E r \in Reqs : grasping_policy(r)
    \/ \E r \in Reqs : except_NoValidGraspsException(r)
    \/ \E r \in Reqs : populate_gqcnn_grasp(r)
    \/ \E r \in Reqs : publish(r)

Spec == Init /\ [][Next]_vars

SpecConc == InitConc /\ [][Next]_vars

(***************************************************************************)
(* The properties.  They are stated on the request as the caller sent it   *)
(* (req[r]) and on what the caller and the collaborators observe.          *)
(***************************************************************************)
Done(r) == pc[r] = "done"
Failed(r, kind) == result[r].status = "error" /\ result[r].error = kind
ColorDepthDecoded(q) == q.color_image.ok /\ q.depth_image.ok
ColorDepthAgree(q) ==
    /\ q.color_image.height = q.depth_image.height
    /\ q.color_image.width = q.depth_image.width

\* pad = ceil(sqrt(2) * max(cropWidth, cropHeight) / 2): the integer p with
\* p - 1 < m / sqrt(2) <= p
RequiredPad ==
    LET m == Max(self.cfg.crop_width, self.cfg.crop_height)
    IN  CHOOSE p \in 1 .. m : 2 * p * p >= m * m /\ 2 * (p - 1) * (p - 1) < m * m
RequiredWidth == 2 * RequiredPad + self.cfg.crop_width
RequiredHeight == 2 * RequiredPad + self.cfg.crop_height
BigEnough(q) ==
    q.color_image.height >= RequiredHeight /\ q.color_image.width >= RequiredWidth

\* the request's images pass the Image Ingestor's checks on color and depth
ImagesValid(q) == ColorDepthDecoded(q) /\ ColorDepthAgree(q) /\ BigEnough(q)

SegmaskDisagrees(q) ==
    /\ q.segmask # None
    /\ Val(q.segmask).ok
    /\ \/ Val(q.segmask).height # q.color_image.height
       \/ Val(q.segmask).width # q.color_image.width

\* the pixels of the box clipped to [0, w) x [0, h)
ClippedBox(b, h, w) ==
    {p \in Pixels(h, w) : b.minY <= p[1] /\ p[1] < b.maxY /\ b.minX <= p[2] /\ p[2] < b.maxX}

BoxOutside(b, h, w) == b.maxX <= 0 \/ b.minX >= w \/ b.maxY <= 0 \/ b.minY >= h

(***************************************************************************)
(* C1: a request calls the policy at most once, and exactly once when its  *)
(* policy stage is reached; after NoValidGraspsException the request ends  *)
(* in an error, with no second call.                                       *)
(***************************************************************************)
C1_PolicyInvokedOnce ==
    \A r \in Reqs :
        /\ policy_calls[r] <= 1
        /\ pc[r] \in {"except", "gqcnn_grasp", "publish"} => policy_calls[r] = 1
        /\ Done(r) /\ rgbd_state[r] # None => policy_calls[r] = 1
        /\ \A e \in policy_log :
              (e.by = r /\ e.out.exc = Some("NoValidGraspsException"))
                  => /\ pc[r] \in {"except", "done"}
                     /\ Done(r) => Failed(r, "NoValidGrasp") /\ result[r].response = None

C1_Witness ==
    \E r \in Reqs : Done(r) /\ Failed(r, "NoValidGrasp") /\ policy_calls[r] = 1

(***************************************************************************)
(* C2 as claimed: color and depth images of different shapes fail the      *)
(* request with DimensionMismatch and no call of the policy, and so does,  *)
(* on the segmask entry point, a segmask of another shape than the images. *)
(***************************************************************************)
C2_AsClaimed ==
    \A r \in Reqs :
        LET q == req[r]
        IN  /\ (Done(r) /\ ColorDepthDecoded(q) /\ ~ColorDepthAgree(q))
                  => Failed(r, "DimensionMismatch") /\ policy_calls[r] = 0
            /\ (Done(r) /\ ColorDepthDecoded(q) /\ SegmaskDisagrees(q))
                  => Failed(r, "DimensionMismatch") /\ policy_calls[r] = 0

(***************************************************************************)
(* C2 amended: color and depth images of different shapes fail the request *)
(* with DimensionMismatch and no call of the policy; on the segmask entry  *)
(* point, when the color and depth images agree in shape and are not too   *)
(* small, a segmask of another shape than the images fails the request     *)
(* with DimensionMismatch and no call of the policy.                       *)
(***************************************************************************)
C2_DimensionMismatch ==
    \A r \in Reqs :
        LET q == req[r]
        IN  /\ policy_calls[r] > 0 => ~(ColorDepthDecoded(q) /\ ~ColorDepthAgree(q))
            /\ policy_calls[r] > 0 => ~(ColorDepthDecoded(q) /\ SegmaskDisagrees(q))
            /\ (Done(r) /\ ColorDepthDecoded(q) /\ ~ColorDepthAgree(q))
                  => Failed(r, "DimensionMismatch") /\ policy_calls[r] = 0
            /\ (Done(r) /\ ImagesValid(q) /\ SegmaskDisagrees(q))
                  => Failed(r, "DimensionMismatch") /\ policy_calls[r] = 0

C2_Witness ==
    \E r \in Reqs :
        /\ Done(r) /\ ImagesValid(req[r]) /\ SegmaskDisagrees(req[r])
        /\ Failed(r, "DimensionMismatch")

(***************************************************************************)
(* C3: equal-sized images lower than minHeight or narrower than minWidth   *)
(* fail the request with ImageTooSmall before any call of the policy;      *)
(* images at least minHeight x minWidth are never rejected as too small.   *)
(***************************************************************************)
C3_ImageTooSmall ==
    \A r \in Reqs :
        LET q == req[r]
        IN  /\ (ColorDepthDecoded(q) /\ ColorDepthAgree(q) /\ ~BigEnough(q))
                  => /\ policy_calls[r] = 0
                     /\ Done(r) => Failed(r, "ImageTooSmall")
            /\ (ColorDepthDecoded(q) /\ ColorDepthAgree(q) /\ BigEnough(q))
                  => ~Failed(r, "ImageTooSmall")

\* high enough but too narrow
C3_Witness ==
    \E r \in Reqs :
        /\ Done(r) /\ Failed(r, "ImageTooSmall")
        /\ req[r].color_image.height >= RequiredHeight
        /\ req[r].color_image.width < RequiredWidth

(***************************************************************************)
(* C4: a bounding-box request whose box lies outside the image gets        *)
(* through mask composition without an error, hands the policy the         *)
(* all-excluded mask, and ends with the policy reporting NoValidGrasp.     *)
(***************************************************************************)
C4_BoxOutsideImage ==
    \A r \in Reqs :
        LET q == req[r]
        IN  (/\ Done(r)
             /\ q.bounding_box # None
             /\ ImagesValid(q)
             /\ BoxOutside(Val(q.bounding_box), q.color_image.height, q.color_image.width))
                => /\ rgbd_state[r] # None
                   /\ Val(rgbd_state[r]).segmask.data = {}
                   /\ policy_calls[r] = 1
                   /\ Failed(r, "NoValidGrasp")

(***************************************************************************)
(* C5: with a bounding box, the region of interest handed to the policy is *)
(* the pixels of the segmask (of the whole image when there is none) that  *)
(* lie inside the box clipped to the image.                                *)
(***************************************************************************)
C5_BoxIntersectsSegmask ==
    \A r \in Reqs :
        (Done(r) /\ args[r] # None /\ Val(args[r]).bounding_box # None)
            => LET a == Val(args[r])
                   h == a.color_im.height
                   w == a.color_im.width
                   seg == IF a.segmask = None THEN Pixels(h, w) ELSE Val(a.segmask).data
               IN  /\ rgbd_state[r] # None
                   /\ Val(rgbd_state[r]).segmask.data
                        = seg \cap ClippedBox(Val(a.bounding_box), h, w)
                   /\ \E e \in policy_log :
                         e.by = r /\ e.state.segmask = Val(rgbd_state[r]).segmask

(***************************************************************************)
(* C6: a plain request that passes validation hands the policy the mask    *)
(* that includes every pixel, of the height and width of the fused image.  *)
(***************************************************************************)
C6_FullImageMask ==
    \A r \in Reqs :
        LET q == req[r]
        IN  (q.entry = "plan_grasp" /\ ImagesValid(q))
                => /\ Done(r) => policy_calls[r] = 1
                   /\ \A e \in policy_log :
                         e.by = r =>
                            /\ e.state.rgbd_im.height = q.color_image.height
                            /\ e.state.rgbd_im.width = q.color_image.width
                            /\ e.state.segmask.height = e.state.rgbd_im.height
                            /\ e.state.segmask.width = e.state.rgbd_im.width
                            /\ e.state.segmask.data
                                 = Pixels(q.color_image.height, q.color_image.width)

C6_Witness ==
    \E r \in Reqs :
        /\ req[r].entry = "plan_grasp"
        /\ req[r].color_image.height # req[r].color_image.width
        /\ result[r].status = "ok"
        /\ \E e \in policy_log : e.by = r

(***************************************************************************)
(* C7: a candidate that is neither a parallel-jaw nor a suction grasp      *)
(* fails the request with UnsupportedGraspType; no response is returned    *)
(* and no pose is published for the request.                               *)
(***************************************************************************)
C7_UnsupportedGraspType ==
    \A r \in Reqs :
        \A e \in policy_log :
            (/\ e.by = r
             /\ e.out.grasp # None
             /\ Val(e.out.grasp).kind \notin {"Grasp2D", "SuctionPoint2D"})
                => /\ result[r].response = None
                   /\ \A m \in published : m.by # r
                   /\ Done(r) => Failed(r, "UnsupportedGraspType")

C7_Witness ==
    \E r \in Reqs :
        /\ Done(r) /\ Failed(r, "UnsupportedGraspType")
        /\ \E e \in policy_log : e.by = r /\ e.out.grasp # None

(***************************************************************************)
(* C8: when publishing the pose fails the request still succeeds: the      *)
(* response that was built is returned, and the failure is not escalated.  *)
(***************************************************************************)
C8_PublishBestEffort ==
    \A r \in Reqs :
        (Done(r) /\ gqcnn_grasp[r] # None)
            => result[r].status = "ok" /\ result[r].response = gqcnn_grasp[r]

(***************************************************************************)
(* C9: when a color, depth or segmask buffer does not decode, the request  *)
(* aborts with a decoding error and the policy is not called.              *)
(***************************************************************************)
C9_DecodeError ==
    \A r \in Reqs :
        LET q == req[r]
            undecoded ==
                \/ ~ColorDepthDecoded(q)
                \/ ImagesValid(q) /\ q.segmask # None /\ ~Val(q.segmask).ok
        IN  (Done(r) /\ undecoded) => Failed(r, "DecodeError") /\ policy_calls[r] = 0

(***************************************************************************)
(* C10: with two requests in flight, what a request hands the policy, what *)
(* it publishes and what it returns come from its own inputs and from the  *)
(* policy's answer to it; the failure of a request is one its own inputs   *)
(* or its own collaborator calls explain.                                  *)
(***************************************************************************)
OwnScene(q, st) ==
    /\ st.rgbd_im.frame = q.frame_id
    /\ st.rgbd_im.height = q.color_image.height
    /\ st.rgbd_im.width = q.color_image.width
    /\ st.rgbd_im.color.height = q.color_image.height
    /\ st.rgbd_im.depth.width = q.depth_image.width
    /\ st.camera_intr.frame = q.frame_id
    /\ st.segmask.frame = q.frame_id
    /\ st.segmask.data =
          IF q.segmask = None
              THEN Pixels(q.color_image.height, q.color_image.width)
          ELSE PatternData(Val(q.segmask).pat, Val(q.segmask).height, Val(q.segmask).width)

Mirrors(msg, g) ==
    /\ msg.q_value = g.q_value
    /\ msg.pose = g.pose
    /\ msg.center_px = g.center
    /\ msg.angle = g.angle
    /\ msg.depth = g.depth
    /\ msg.thumbnail = g.image

C10_NoLeak ==
    \A r \in Reqs :
        LET q == req[r]
            mine == {e \in policy_log : e.by = r}
        IN  /\ \A e \in mine : OwnScene(q, e.state)
            /\ rgbd_state[r] # None => OwnScene(q, Val(rgbd_state[r]))
            /\ result[r].response # None =>
                  \E e \in mine :
                     e.out.grasp # None /\ Mirrors(Val(result[r].response), Val(e.out.grasp))
            /\ \A m \in published :
                  m.by = r =>
                     /\ m.msg.frame_id = q.frame_id
                     /\ \E e \in mine : e.out.grasp # None /\ m.msg.pose = Val(e.out.grasp).pose
            /\ (Done(r) /\ ImagesValid(q) /\ q.entry = "plan_grasp") => mine # {}
            /\ (Done(r) /\ mine = {}) =>
                  \/ ~ImagesValid(q)
                  \/ q.bounding_box # None
                  \/ q.segmask # None /\ (~Val(q.segmask).ok \/ SegmaskDisagrees(q))

C10_Witness ==
    /\ Reqs = {1, 2}
    /\ result[1].status = "ok"
    /\ result[2].status = "ok"
    /\ req[1].frame_id # req[2].frame_id
    /\ result[1].response # result[2].response
====
